---- MODULE Spec2Model ----
(***************************************************************************)
(* sign-pay: the Gin payment gate SignPayMiddleware (server/go) as a state *)
(* machine.  One gate is constructed from static configuration; requests   *)
(* then run through the handler chain                                      *)
(*     [validation] -> [pricing] -> SignPayMiddleware -> handler           *)
(* and the gate talks to the x402 facilitator (Verify, then Settle).       *)
(***************************************************************************)
EXTENDS Integers, Sequences, FiniteSets, TLC

VARIABLES
    gate,                \* the constructed middleware: captured configuration
    pc,                  \* per request: position in the handler chain
    request,             \* per request: what the client sent
    body,                \* per request: c.Request.Body, the single-read stream
    keys,                \* per request: c.Keys, the request-scoped context
    resp,                \* per request: the HTTP response written so far
    aborted,             \* per request: c.IsAborted()
    handlerRuns,         \* per request: times the protected handler ran
    calls,               \* per request: facilitator calls issued, in order
    requestBody,         \* gate local: captured body (nil or bytes)
    paymentRequirements, \* gate local: requirements built for the request
    paymentPayload,      \* gate local: decoded payload
    verifyResponse,      \* gate local: facilitator's verify answer
    settleResponse,      \* gate local: facilitator's settle answer
    encodeErr,           \* gate local: err of settleResponse.EncodeToBase64String()
    downstreamBody,      \* what the protected handler read from c.Request.Body
    handlerResult        \* per request: what processOrder got from the PaymentData

vars == <<gate, pc, request, body, keys, resp, aborted, handlerRuns, calls,
          requestBody, paymentRequirements, paymentPayload, verifyResponse,
          settleResponse, encodeErr, downstreamBody, handlerResult>>

(***************************************************************************)
(* Program constants                                                       *)
(***************************************************************************)
x402Version == 1
PaymentDataKey == "signPaymentData"
AmountKey == "signpay:amount"
DefaultTimeoutSeconds == 300
StatusBadRequest == 400
StatusPaymentRequired == 402
StatusInternalServerError == 500

\* var chainIDToNetwork = map[int]string{...}
chainIDToNetwork ==
    { <<1, "ethereum">>, <<11155111, "sepolia">>, <<8453, "base">>,
      <<84532, "base-sepolia">>, <<10, "optimism">>,
      <<11155420, "optimism-sepolia">>, <<42161, "arbitrum">>,
      <<421614, "arbitrum-sepolia">>, <<137, "polygon">>,
      <<80002, "polygon-amoy">>, <<43114, "avalanche">>,
      <<43113, "avalanche-fuji">>, <<59144, "linea">>,
      <<59141, "linea-sepolia">>, <<324, "zksync">>,
      <<300, "zksync-sepolia">> }

(***************************************************************************)
(* Bounds and input sets                                                   *)
(***************************************************************************)
MaxBodyLen == 2

Requests == {"r1"}
BodyBytes == {"{", "}"}
Bodies == UNION { [1..n -> BodyBytes] : n \in 0..MaxBodyLen }

\* c.Request.Body: nil, or a stream that yields data and then EOF or an error
NilBody == [nil |-> TRUE, data |-> <<>>, err |-> FALSE]
Stream(b, e) == [nil |-> FALSE, data |-> b, err |-> e]
\* an order as the checkout posts it
OrderBody == <<"{", "\"customerEmail\":\"a@b.c\"", "}">>
BodyInputs ==
    {NilBody} \cup { Stream(b, FALSE) : b \in Bodies \cup {OrderBody} }
              \cup { Stream(b, TRUE) : b \in {c \in Bodies : Len(c) <= 1} }

NotBase64 == "%%%"
NotJSONB64 == "bm90IGpzb24="
PayloadV1B64 == "eyJ4NDAyVmVyc2lvbiI6MSwic2NoZW1lIjoiZXhhY3QiLCJwYXlsb2FkIjoic2lnQSJ9"
PayloadV2B64 == "eyJ4NDAyVmVyc2lvbiI6Miwic2NoZW1lIjoiZXhhY3QiLCJwYXlsb2FkIjoic2lnQiJ9"
HeaderValues == {"", NotBase64, NotJSONB64, PayloadV1B64, PayloadV2B64}
HeaderInputs ==
    {<<>>} \cup { <<[name |-> "X-PAYMENT", value |-> v]>> : v \in HeaderValues }
           \cup { <<[name |-> "X-Payment", value |-> PayloadV1B64]>> }

UnsupportedChainIds == {0, 5, 31337}
ChainIdInputs == { e[1] : e \in chainIDToNetwork } \cup UnsupportedChainIds
TokenAmountInputs == {"", "1000000"}
APIKeyInputs == {"", "secret-key"}
ResourceInputs == {"", "https://api.example.com/resource"}
\* configurations the gate is constructed with: every chain ID under the plain
\* configuration, and every combination of amount and options on Base Sepolia
ConfigInputs ==
    { [chainId |-> id, tokenAmount |-> "1000000", apiKey |-> "", resource |-> ""] :
        id \in ChainIdInputs }
    \cup [chainId : {84532}, tokenAmount : TokenAmountInputs,
          apiKey : APIKeyInputs, resource : ResourceInputs]
TokenAddress == "0x036CbD53842c5426634e7929541eC2318f3dCF7e"
RecipientAddress == "0xB8E124eaA317761CF8E4C63EB445fA3d21deD759"
FacilitatorURL == "https://x402.org/facilitator"
RequestHost == "localhost:8080"
RequestPath == "/api/purchase"

\* a value stored with c.Set: Go's `any`, tagged with its dynamic type
StringValue(s) == [type |-> "string", val |-> s]
IntValue(s) == [type |-> "int64", val |-> s]
AmountValues == {StringValue(""), StringValue("250000"), IntValue("250000")}

\* what the facilitator client can hand back
TransportError == "dial tcp: connection refused"
VerifyResults ==
    { [err |-> TransportError, IsValid |-> FALSE, InvalidReason |-> <<>>],
      [err |-> "", IsValid |-> TRUE, InvalidReason |-> <<>>],
      [err |-> "", IsValid |-> FALSE, InvalidReason |-> <<>>],
      [err |-> "", IsValid |-> FALSE, InvalidReason |-> <<"insufficient_funds">>] }
SettleResults ==
    { [err |-> TransportError, Success |-> FALSE, ErrorReason |-> <<>>, Transaction |-> ""],
      [err |-> "", Success |-> TRUE, ErrorReason |-> <<>>, Transaction |-> "0xabc"],
      [err |-> "", Success |-> FALSE, ErrorReason |-> <<>>, Transaction |-> ""],
      [err |-> "", Success |-> FALSE, ErrorReason |-> <<"insufficient_funds">>, Transaction |-> ""] }

(***************************************************************************)
(* Pure helpers                                                            *)
(***************************************************************************)
\* mutant: the `ok` of the map lookup is ignored (zero value for a missing key)
MapIndex_IgnoreOk(chainId) ==
    IF \E e \in chainIDToNetwork : e[1] = chainId
    THEN [ok |-> TRUE, network |-> (CHOOSE e \in chainIDToNetwork : e[1] = chainId)[2]]
    ELSE [ok |-> TRUE, network |-> ""]

\* network, ok := chainIDToNetwork[chainId]
MapIndex(chainId) ==
    IF \E e \in chainIDToNetwork : e[1] = chainId
    THEN [ok |-> TRUE, network |-> (CHOOSE e \in chainIDToNetwork : e[1] = chainId)[2]]
    ELSE [ok |-> FALSE, network |-> ""]

\* io.ReadAll(c.Request.Body): everything left in the stream, and its error
ReadAll(s) == [bytes |-> s.data, err |-> s.err]
\* the stream once ReadAll has drained it
Drained(s) == [s EXCEPT !.data = <<>>]
\* io.NopCloser(bytes.NewBuffer(bodyBytes))
NewBuffer(bytes) == Stream(bytes, FALSE)

\* base64.StdEncoding.DecodeString, on the header values of HeaderValues
StdEncodingDecodeString(s) ==
    CASE s = "" -> [err |-> "", out |-> ""]
      [] s = NotJSONB64 -> [err |-> "", out |-> "not json"]
      [] s = PayloadV1B64 ->
            [err |-> "", out |-> "{\"x402Version\":1,\"scheme\":\"exact\",\"payload\":\"sigA\"}"]
      [] s = PayloadV2B64 ->
            [err |-> "", out |-> "{\"x402Version\":2,\"scheme\":\"exact\",\"payload\":\"sigB\"}"]
      [] OTHER -> [err |-> "illegal base64 data at input byte 0", out |-> ""]

\* json.Unmarshal(decodedBytes, &payload) into types.PaymentPayload
UnmarshalPayload(text) ==
    CASE text = "{\"x402Version\":1,\"scheme\":\"exact\",\"payload\":\"sigA\"}" ->
            [err |-> "", payload |-> <<[X402Version |-> 1, Scheme |-> "exact",
                                        Network |-> "", Payload |-> "sigA"]>>]
      [] text = "{\"x402Version\":2,\"scheme\":\"exact\",\"payload\":\"sigB\"}" ->
            [err |-> "", payload |-> <<[X402Version |-> 2, Scheme |-> "exact",
                                        Network |-> "", Payload |-> "sigB"]>>]
      [] text = "" -> [err |-> "unexpected end of JSON input", payload |-> <<>>]
      [] OTHER -> [err |-> "invalid character 'o' in literal null (expecting 'u')",
                   payload |-> <<>>]

\* types.DecodePaymentPayloadFromBase64(payment)
DecodePaymentPayloadFromBase64(s) ==
    LET d == StdEncodingDecodeString(s) IN
    IF d.err # ""
    THEN [err |-> "failed to decode base64 string: " \o d.err, payload |-> <<>>]
    ELSE LET u == UnmarshalPayload(d.out) IN
         IF u.err # ""
         THEN [err |-> "failed to unmarshal payment payload: " \o u.err, payload |-> <<>>]
         ELSE u

\* mutant: header names are compared as sent, byte for byte
CanonicalMIMEHeaderKey_Exact(k) == k
\* textproto.CanonicalMIMEHeaderKey, on the names a payment header travels under
CanonicalMIMEHeaderKey(k) ==
    IF k \in {"X-PAYMENT", "X-Payment", "x-payment"} THEN "X-Payment" ELSE k

\* c.GetHeader(key): http.Header.Get on the headers the server parsed
GetHeader(req, key) ==
    IF /\ req.header # <<>>
       /\ CanonicalMIMEHeaderKey(req.header[1].name) = CanonicalMIMEHeaderKey(key)
    THEN req.header[1].value
    ELSE ""

\* mutant: the scheme is always "http"
ResourceURL_AlwaysHttp(resource, req) ==
    IF resource # "" THEN resource ELSE "http" \o "://" \o req.host \o req.path
\* resource URL: the configured one, else scheme://host/path of the request
ResourceURL(resource, req) ==
    IF resource # ""
    THEN resource
    ELSE (IF req.tls THEN "https" ELSE "http") \o "://" \o req.host \o req.path

\* mutant: an empty override falls back to the static amount
ResolveAmount_SkipEmpty(tokenAmount, k) ==
    IF k[AmountKey] # <<>>
    THEN IF k[AmountKey][1].type = "string"
         THEN [panic |-> FALSE,
               amount |-> IF k[AmountKey][1].val = "" THEN tokenAmount
                          ELSE k[AmountKey][1].val]
         ELSE [panic |-> TRUE, amount |-> ""]
    ELSE [panic |-> FALSE, amount |-> tokenAmount]
\* mutant: a non-string override is ignored instead of asserted
ResolveAmount_CommaOk(tokenAmount, k) ==
    IF k[AmountKey] # <<>> /\ k[AmountKey][1].type = "string"
    THEN [panic |-> FALSE, amount |-> k[AmountKey][1].val]
    ELSE [panic |-> FALSE, amount |-> tokenAmount]
\* mutant: a configured static amount wins over the context value
ResolveAmount_StaticFirst(tokenAmount, k) ==
    IF tokenAmount = "" /\ k[AmountKey] # <<>>
    THEN IF k[AmountKey][1].type = "string"
         THEN [panic |-> FALSE, amount |-> k[AmountKey][1].val]
         ELSE [panic |-> TRUE, amount |-> ""]
    ELSE [panic |-> FALSE, amount |-> tokenAmount]

\* amount := tokenAmount; if v, exists := c.Get("signpay:amount") { amount = v.(string) }
ResolveAmount(tokenAmount, k) ==
    IF k[AmountKey] # <<>>
    THEN IF k[AmountKey][1].type = "string"
         THEN [panic |-> FALSE, amount |-> k[AmountKey][1].val]
         ELSE [panic |-> TRUE, amount |-> ""]
    ELSE [panic |-> FALSE, amount |-> tokenAmount]

\* mutant: the client's version is left in the payload
StampVersion_Keep(payload) == payload
\* paymentPayload.X402Version = x402Version
StampVersion(payload) == [payload EXCEPT !.X402Version = x402Version]

\* &types.PaymentRequirements{...}
NewPaymentRequirements(network, amount, resourceURL) ==
    [Scheme |-> "exact",
     Network |-> network,
     MaxAmountRequired |-> amount,
     Resource |-> resourceURL,
     Description |-> "Payment for purchase",
     PayTo |-> RecipientAddress,
     Asset |-> TokenAddress,
     MaxTimeoutSeconds |-> DefaultTimeoutSeconds]

\* mutant: the auth header map has no entry for settle
CreateAuthHeaders_VerifyOnly(apiKey) ==
    IF apiKey # ""
    THEN <<[verify |-> <<"Bearer " \o apiKey>>, settle |-> <<>>]>>
    ELSE <<>>

\* facilitatorConfig.CreateAuthHeaders: nil unless the API key is non-empty, else
\* a provider of the Authorization header for "verify" and for "settle"
CreateAuthHeaders(apiKey) ==
    IF apiKey # ""
    THEN <<[verify |-> <<"Bearer " \o apiKey>>, settle |-> <<"Bearer " \o apiKey>>]>>
    ELSE <<>>

\* the Authorization header the facilitator client puts on a call of kind op
AuthorizationFor(createAuthHeaders, op) ==
    IF createAuthHeaders = <<>> THEN <<>> ELSE createAuthHeaders[1][op]

\* mutant: the handler assigns the resolved amount to the captured tokenAmount
CapturedConfig_Overwritten(g, a) ==
    IF a.panic THEN g ELSE [g EXCEPT !.tokenAmount = a.amount]

\* amount := tokenAmount declares a local: the configuration the closure
\* captured is read by the handler and never assigned
CapturedConfig(g, a) == g

\* mutant: the response header is never set
PaymentResponseHeader_Never(err, sr) == <<>>

\* settleResponse.EncodeToBase64String(): base64 of the response's JSON
EncodeToBase64String(sr) ==
    [encoding |-> "base64", json |-> [success |-> sr.Success,
                                      transaction |-> sr.Transaction,
                                      errorReason |-> sr.ErrorReason]]

\* if err == nil { c.Header("X-PAYMENT-RESPONSE", settleResponseHeader) }
PaymentResponseHeader(err, sr) ==
    IF ~err THEN <<EncodeToBase64String(sr)>> ELSE <<>>

\* mutant: the verify response is left out of PaymentData (zero value)
NewPaymentData_NoVerify(payload, settle, requirements, verify, rb) ==
    [PaymentPayload |-> payload,
     SettleResponse |-> settle,
     PaymentRequirements |-> requirements,
     VerifyResponse |-> [err |-> "", IsValid |-> FALSE, InvalidReason |-> <<>>],
     RequestBody |-> rb]

\* &PaymentData{...}
NewPaymentData(payload, settle, requirements, verify, rb) ==
    [PaymentPayload |-> payload,
     SettleResponse |-> settle,
     PaymentRequirements |-> requirements,
     VerifyResponse |-> verify,
     RequestBody |-> rb]

\* gin.H bodies of the responses the gate writes
NoResponse ==
    [status |-> 0, error |-> "", accepts |-> <<>>, x402Version |-> <<>>,
     xPaymentResponse |-> <<>>]
ErrorBody(status, msg, accepts, version) ==
    [status |-> status, error |-> msg, accepts |-> accepts, x402Version |-> version,
     xPaymentResponse |-> <<>>]

\* the gate's responses, one per AbortWithStatusJSON of the handler
BodyReadFailedResponse ==
    ErrorBody(StatusBadRequest, "Failed to read request body", <<>>, <<>>)
AmountNotConfiguredResponse ==
    ErrorBody(StatusInternalServerError,
        "Payment amount not configured. Set amount parameter or use c.Set(\"signpay:amount\", amount) in preceding middleware.",
        <<>>, <<x402Version>>)
\* mutant: a missing header is answered 400, as the README's error table has it
HeaderRequiredResponse_400(requirements) ==
    ErrorBody(StatusBadRequest, "X-PAYMENT header is required",
              <<requirements>>, <<x402Version>>)
\* mutant: the 402 for a missing header carries no "accepts" (no price discovery)
HeaderRequiredResponse_NoAccepts(requirements) ==
    ErrorBody(StatusPaymentRequired, "X-PAYMENT header is required", <<>>,
              <<x402Version>>)
HeaderRequiredResponse(requirements) ==
    ErrorBody(StatusPaymentRequired, "X-PAYMENT header is required",
              <<requirements>>, <<x402Version>>)
\* mutant: an undecodable payload is answered like a missing payment
InvalidPayloadResponse_402(msg) ==
    ErrorBody(StatusPaymentRequired, "Invalid payment payload: " \o msg, <<>>,
              <<x402Version>>)
InvalidPayloadResponse(msg) ==
    ErrorBody(StatusBadRequest, "Invalid payment payload: " \o msg, <<>>,
              <<x402Version>>)
VerifyErrorResponse(msg) ==
    ErrorBody(StatusInternalServerError, "Payment verification failed: " \o msg, <<>>,
              <<x402Version>>)
\* mutant: the facilitator's reason is not surfaced
VerifyInvalidResponse_Generic(v, requirements) ==
    ErrorBody(StatusPaymentRequired, "Payment verification failed: " \o "unknown reason",
              <<requirements>>, <<x402Version>>)
VerifyInvalidResponse(v, requirements) ==
    LET reason == IF v.InvalidReason # <<>> THEN v.InvalidReason[1]
                  ELSE "unknown reason" IN
    ErrorBody(StatusPaymentRequired, "Payment verification failed: " \o reason,
              <<requirements>>, <<x402Version>>)
SettleErrorResponse(msg) ==
    ErrorBody(StatusInternalServerError, "Payment settlement failed: " \o msg, <<>>,
              <<x402Version>>)
SettleFailedResponse(s, requirements) ==
    LET errorReason == IF s.ErrorReason # <<>> THEN s.ErrorReason[1]
                       ELSE "Settlement was not successful" IN
    ErrorBody(StatusPaymentRequired, "Payment settlement failed: " \o errorReason,
              <<requirements>>, <<x402Version>>)

\* the handler's branch conditions
\* mutants: the check is dropped
AmountMissing_Never(amount) == FALSE
VerifyFailed_Never(v) == FALSE
VerifyRejected_Never(v) == FALSE
SettleRejected_Never(s) == FALSE
SettleFailed_Never(s) == FALSE

AmountMissing(amount) == amount = ""
HeaderMissing(payment) == payment = ""
VerifyFailed(v) == v.err # ""
VerifyRejected(v) == ~v.IsValid
SettleFailed(s) == s.err # ""
SettleRejected(s) == ~s.Success

\* mutant: the drained body is not put back
RestoreBody_Empty(bodyBytes) == NewBuffer(<<>>)
\* c.Request.Body = io.NopCloser(bytes.NewBuffer(bodyBytes)) in the gate
RestoreBody(bodyBytes) == NewBuffer(bodyBytes)
\* if len(bodyBytes) > 0 { requestBody = json.RawMessage(bodyBytes) }
CaptureBody(bodyBytes) == IF Len(bodyBytes) > 0 THEN bodyBytes ELSE <<>>

EmptyKeys == [k \in {AmountKey, PaymentDataKey} |-> <<>>]

\* var order Order
ZeroOrder == [CustomerEmail |-> ""]
\* json.Unmarshal(data, &order): the error, and the order afterwards
JSONUnmarshal(data, v) ==
    CASE data = <<"{", "}">> -> [err |-> "", v |-> v]
      [] data = OrderBody -> [err |-> "", v |-> [v EXCEPT !.CustomerEmail = "a@b.c"]]
      [] data = <<>> -> [err |-> "unexpected end of JSON input", v |-> v]
      [] data = <<"{">> -> [err |-> "unexpected end of JSON input", v |-> v]
      [] OTHER -> [err |-> "invalid character in JSON input", v |-> v]
\* mutant: the length check is dropped
UnmarshalOrderData_NoGuard(p, v) == JSONUnmarshal(p.RequestBody, v)
\* func (p *PaymentData) UnmarshalOrderData(v interface{}) error
UnmarshalOrderData(p, v) ==
    IF Len(p.RequestBody) = 0 THEN [err |-> "", v |-> v]
    ELSE JSONUnmarshal(p.RequestBody, v)
\* mutant: the comma-ok form of the assertion, nil when nothing is stored
GetPaymentData_CommaOk(k) == [panic |-> FALSE, data |-> k[PaymentDataKey]]
\* data, _ := c.Get(PaymentDataKey); return data.(*PaymentData)
GetPaymentData(k) ==
    IF k[PaymentDataKey] # <<>>
    THEN [panic |-> FALSE, data |-> k[PaymentDataKey]]
    ELSE [panic |-> TRUE, data |-> <<>>]

(***************************************************************************)
(* Initial state: nothing constructed, no request received                 *)
(***************************************************************************)
Init ==
    /\ gate = [state |-> "unbuilt", chainId |-> 0, network |-> "", tokenAmount |-> "",
               apiKey |-> "", resource |-> "", createAuthHeaders |-> <<>>]
    /\ pc = [r \in Requests |-> "new"]
    /\ request = [r \in Requests |-> [header |-> <<>>, tls |-> FALSE,
                                      host |-> RequestHost, path |-> RequestPath,
                                      body |-> NilBody]]
    /\ body = [r \in Requests |-> NilBody]
    /\ keys = [r \in Requests |-> EmptyKeys]
    /\ resp = [r \in Requests |-> NoResponse]
    /\ aborted = [r \in Requests |-> FALSE]
    /\ handlerRuns = [r \in Requests |-> 0]
    /\ calls = [r \in Requests |-> <<>>]
    /\ requestBody = [r \in Requests |-> <<>>]
    /\ paymentRequirements = [r \in Requests |-> <<>>]
    /\ paymentPayload = [r \in Requests |-> <<>>]
    /\ verifyResponse = [r \in Requests |-> <<>>]
    /\ settleResponse = [r \in Requests |-> <<>>]
    /\ encodeErr = [r \in Requests |-> <<>>]
    /\ downstreamBody = [r \in Requests |-> <<>>]
    /\ handlerResult = [r \in Requests |-> <<>>]

gateLocals == <<requestBody, paymentRequirements, paymentPayload, verifyResponse,
                settleResponse, encodeErr>>

(***************************************************************************)
(* Construction: SignPayMiddleware(chainId, tokenAddress, tokenAmount,     *)
(* recipientAddress, facilitatorURL, opts...)                              *)
(***************************************************************************)
SignPayMiddleware(chainId, tokenAmount, apiKey, resource) ==
    /\ gate.state = "unbuilt"
    /\ LET m == MapIndex(chainId) IN
       gate' = IF ~m.ok
               THEN [gate EXCEPT !.state = "panic", !.chainId = chainId]
               ELSE [state |-> "ready", chainId |-> chainId, network |-> m.network,
                     tokenAmount |-> tokenAmount, apiKey |-> apiKey,
                     resource |-> resource,
                     createAuthHeaders |-> CreateAuthHeaders(apiKey)]
    /\ UNCHANGED <<pc, request, body, keys, resp, aborted, handlerRuns, calls,
                   gateLocals, downstreamBody, handlerResult>>

(***************************************************************************)
(* A request arrives at the route the gate is mounted on                   *)
(***************************************************************************)
Arrive(r, b, h, tls) ==
    /\ gate.state = "ready"
    /\ pc[r] = "new"
    /\ request' = [request EXCEPT ![r] = [header |-> h, tls |-> tls,
                                          host |-> RequestHost, path |-> RequestPath,
                                          body |-> b]]
    /\ body' = [body EXCEPT ![r] = b]
    /\ pc' = [pc EXCEPT ![r] = "upstream"]
    /\ UNCHANGED <<gate, keys, resp, aborted, handlerRuns, calls, gateLocals,
                   downstreamBody, handlerResult>>

\* c.AbortWithStatusJSON(status, gin.H{...}) followed by return
AbortWithStatusJSON(r, b) ==
    /\ resp' = [resp EXCEPT ![r] = b]
    /\ aborted' = [aborted EXCEPT ![r] = TRUE]
    /\ pc' = [pc EXCEPT ![r] = "done"]

(***************************************************************************)
(* Middleware mounted ahead of the gate                                    *)
(***************************************************************************)
\* the gate is the first handler of the route
NoUpstream(r) ==
    /\ pc[r] = "upstream"
    /\ pc' = [pc EXCEPT ![r] = "gate"]
    /\ UNCHANGED <<gate, request, body, keys, resp, aborted, handlerRuns, calls,
                   gateLocals, downstreamBody, handlerResult>>

\* mutant: validateOrder answers with c.JSON and returns, without aborting, so
\* gin runs the next handler of the chain
ValidateOrderAbort_NoAbort(r) ==
    /\ pc[r] = "upstream"
    /\ ~body[r].nil
    /\ body' = [body EXCEPT ![r] = NewBuffer(ReadAll(body[r]).bytes)]
    /\ resp' = [resp EXCEPT ![r] = ErrorBody(StatusBadRequest, "Email required", <<>>, <<>>)]
    /\ pc' = [pc EXCEPT ![r] = "gate"]
    /\ UNCHANGED <<gate, request, keys, aborted, handlerRuns, calls, gateLocals,
                   downstreamBody, handlerResult>>

\* validateOrder rejects the order: it aborts and the chain stops
ValidateOrderAbort(r) ==
    /\ pc[r] = "upstream"
    /\ ~body[r].nil
    /\ body' = [body EXCEPT ![r] = NewBuffer(ReadAll(body[r]).bytes)]
    /\ resp' = [resp EXCEPT ![r] = ErrorBody(StatusBadRequest, "Email required", <<>>, <<>>)]
    /\ aborted' = [aborted EXCEPT ![r] = TRUE]
    /\ pc' = [pc EXCEPT ![r] = "rejected"]
    /\ UNCHANGED <<gate, request, keys, handlerRuns, calls, gateLocals, downstreamBody,
                   handlerResult>>

\* fmt.Sprintf("%d", total) for the order in the body (an empty order totals 0)
OrderTotal(bytes) == IF bytes = <<>> THEN "0" ELSE "250000"

\* calculateOrderTotal: read and restore the body, set the dynamic amount
CalculateOrderTotal(r) ==
    /\ pc[r] = "upstream"
    /\ ~body[r].nil
    /\ LET bodyBytes == ReadAll(body[r]).bytes IN
       /\ body' = [body EXCEPT ![r] = NewBuffer(bodyBytes)]
       /\ keys' = [keys EXCEPT ![r][AmountKey] = <<StringValue(OrderTotal(bodyBytes))>>]
    /\ pc' = [pc EXCEPT ![r] = "gate"]
    /\ UNCHANGED <<gate, request, resp, aborted, handlerRuns, calls, gateLocals,
                   downstreamBody, handlerResult>>

\* any preceding middleware doing c.Set("signpay:amount", v); c.Next()
SetAmount(r, v) ==
    /\ pc[r] = "upstream"
    /\ keys' = [keys EXCEPT ![r][AmountKey] = <<v>>]
    /\ pc' = [pc EXCEPT ![r] = "gate"]
    /\ UNCHANGED <<gate, request, body, resp, aborted, handlerRuns, calls, gateLocals,
                   downstreamBody, handlerResult>>

(***************************************************************************)
(* The gate: the handler SignPayMiddleware returns, step by step           *)
(***************************************************************************)
\* mutant: the error of io.ReadAll is ignored and the gate goes on
GateBody_IgnoreReadError(r) ==
    /\ pc[r] = "gate"
    /\ IF body[r].nil
       THEN UNCHANGED <<body, requestBody>>
       ELSE /\ body' = [body EXCEPT ![r] = Drained(body[r])]
            /\ requestBody' = [requestBody EXCEPT ![r] = CaptureBody(ReadAll(body[r]).bytes)]
    /\ pc' = [pc EXCEPT ![r] = "amount"]
    /\ UNCHANGED <<gate, request, keys, resp, aborted, handlerRuns, calls,
                   paymentRequirements, paymentPayload, verifyResponse, settleResponse,
                   encodeErr, downstreamBody, handlerResult>>

\* read and preserve the request body
GateBody(r) ==
    /\ pc[r] = "gate"
    /\ IF body[r].nil
       THEN /\ pc' = [pc EXCEPT ![r] = "amount"]
            /\ UNCHANGED <<body, requestBody, resp, aborted>>
       ELSE LET rd == ReadAll(body[r]) IN
            IF rd.err
            THEN /\ body' = [body EXCEPT ![r] = Drained(body[r])]
                 /\ AbortWithStatusJSON(r, BodyReadFailedResponse)
                 /\ UNCHANGED requestBody
            ELSE /\ body' = [body EXCEPT ![r] = RestoreBody(rd.bytes)]
                 /\ requestBody' = [requestBody EXCEPT ![r] = CaptureBody(rd.bytes)]
                 /\ pc' = [pc EXCEPT ![r] = "amount"]
                 /\ UNCHANGED <<resp, aborted>>
    /\ UNCHANGED <<gate, request, keys, handlerRuns, calls, paymentRequirements,
                   paymentPayload, verifyResponse, settleResponse, encodeErr,
                   downstreamBody, handlerResult>>

\* resource URL, amount (context overrides configuration), requirements
GateRequirements(r) ==
    /\ pc[r] = "amount"
    /\ LET a == ResolveAmount(gate.tokenAmount, keys[r]) IN
       IF a.panic
       THEN /\ pc' = [pc EXCEPT ![r] = "panic"]
            /\ UNCHANGED <<resp, aborted, paymentRequirements>>
       ELSE IF AmountMissing(a.amount)
       THEN /\ AbortWithStatusJSON(r, AmountNotConfiguredResponse)
            /\ UNCHANGED paymentRequirements
       ELSE /\ paymentRequirements' = [paymentRequirements EXCEPT ![r] =
                   <<NewPaymentRequirements(gate.network, a.amount,
                                            ResourceURL(gate.resource, request[r]))>>]
            /\ pc' = [pc EXCEPT ![r] = "payload"]
            /\ UNCHANGED <<resp, aborted>>
    /\ gate' = CapturedConfig(gate, ResolveAmount(gate.tokenAmount, keys[r]))
    /\ UNCHANGED <<request, body, keys, handlerRuns, calls, requestBody,
                   paymentPayload, verifyResponse, settleResponse, encodeErr,
                   downstreamBody, handlerResult>>

\* read the X-PAYMENT header and decode the payload
GatePayload(r) ==
    /\ pc[r] = "payload"
    /\ LET payment == GetHeader(request[r], "X-PAYMENT")
           d == DecodePaymentPayloadFromBase64(payment) IN
       IF HeaderMissing(payment)
       THEN /\ AbortWithStatusJSON(r, HeaderRequiredResponse(paymentRequirements[r][1]))
            /\ UNCHANGED paymentPayload
       ELSE IF d.err # ""
       THEN /\ AbortWithStatusJSON(r, InvalidPayloadResponse(d.err))
            /\ UNCHANGED paymentPayload
       ELSE /\ paymentPayload' = [paymentPayload EXCEPT ![r] =
                   <<StampVersion(d.payload[1])>>]
            /\ pc' = [pc EXCEPT ![r] = "verify"]
            /\ UNCHANGED <<resp, aborted>>
    /\ UNCHANGED <<gate, request, body, keys, handlerRuns, calls, requestBody,
                   paymentRequirements, verifyResponse, settleResponse, encodeErr,
                   downstreamBody, handlerResult>>

\* mutant: Settle is given requirements built anew from the static configuration
FacilitatorCall_Rebuilt(op, r) ==
    [op |-> op, paymentPayload |-> paymentPayload[r][1],
     paymentRequirements |->
        IF op = "settle"
        THEN NewPaymentRequirements(gate.network, gate.tokenAmount,
                                    ResourceURL(gate.resource, request[r]))
        ELSE paymentRequirements[r][1],
     authorization |-> AuthorizationFor(gate.createAuthHeaders, op),
     result |-> <<>>]
\* an outbound facilitator call, as the facilitator sees it
FacilitatorCall(op, r) ==
    [op |-> op, paymentPayload |-> paymentPayload[r][1],
     paymentRequirements |-> paymentRequirements[r][1],
     authorization |-> AuthorizationFor(gate.createAuthHeaders, op),
     result |-> <<>>]

\* the call in flight returns: its result as the facilitator client hands it back
Returned(log, result) == [log EXCEPT ![Len(log)].result = <<result>>]

\* facilitatorClient.Verify(paymentPayload, paymentRequirements) is issued
VerifyCall(r) ==
    /\ pc[r] = "verify"
    /\ calls' = [calls EXCEPT ![r] = Append(@, FacilitatorCall("verify", r))]
    /\ pc' = [pc EXCEPT ![r] = "verifying"]
    /\ UNCHANGED <<gate, request, body, keys, resp, aborted, handlerRuns, gateLocals,
                   downstreamBody, handlerResult>>

\* mutant: a transport error of Verify is retried once
VerifyReturn_Retry(r, v) ==
    /\ pc[r] = "verifying"
    /\ calls' = [calls EXCEPT ![r] = Returned(@, v)]
    /\ IF VerifyFailed(v)
       THEN /\ IF Len(calls[r]) < 2
               THEN /\ pc' = [pc EXCEPT ![r] = "verify"]
                    /\ UNCHANGED <<resp, aborted>>
               ELSE AbortWithStatusJSON(r, VerifyErrorResponse(v.err))
            /\ UNCHANGED verifyResponse
       ELSE /\ verifyResponse' = [verifyResponse EXCEPT ![r] = <<v>>]
            /\ IF VerifyRejected(v)
               THEN AbortWithStatusJSON(r, VerifyInvalidResponse(v, paymentRequirements[r][1]))
               ELSE /\ pc' = [pc EXCEPT ![r] = "settle"]
                    /\ UNCHANGED <<resp, aborted>>
    /\ UNCHANGED <<gate, request, body, keys, handlerRuns, requestBody,
                   paymentRequirements, paymentPayload, settleResponse, encodeErr,
                   downstreamBody, handlerResult>>

\* Verify returns v
VerifyReturn(r, v) ==
    /\ pc[r] = "verifying"
    /\ calls' = [calls EXCEPT ![r] = Returned(@, v)]
    /\ IF VerifyFailed(v)
       THEN /\ AbortWithStatusJSON(r, VerifyErrorResponse(v.err))
            /\ UNCHANGED verifyResponse
       ELSE /\ verifyResponse' = [verifyResponse EXCEPT ![r] = <<v>>]
            /\ IF VerifyRejected(v)
               THEN AbortWithStatusJSON(r, VerifyInvalidResponse(v, paymentRequirements[r][1]))
               ELSE /\ pc' = [pc EXCEPT ![r] = "settle"]
                    /\ UNCHANGED <<resp, aborted>>
    /\ UNCHANGED <<gate, request, body, keys, handlerRuns, requestBody,
                   paymentRequirements, paymentPayload, settleResponse, encodeErr,
                   downstreamBody, handlerResult>>

\* facilitatorClient.Settle(paymentPayload, paymentRequirements) is issued
SettleCall(r) ==
    /\ pc[r] = "settle"
    /\ calls' = [calls EXCEPT ![r] = Append(@, FacilitatorCall("settle", r))]
    /\ pc' = [pc EXCEPT ![r] = "settling"]
    /\ UNCHANGED <<gate, request, body, keys, resp, aborted, handlerRuns, gateLocals,
                   downstreamBody, handlerResult>>

\* Settle returns s
SettleReturn(r, s) ==
    /\ pc[r] = "settling"
    /\ calls' = [calls EXCEPT ![r] = Returned(@, s)]
    /\ IF SettleFailed(s)
       THEN /\ AbortWithStatusJSON(r, SettleErrorResponse(s.err))
            /\ UNCHANGED settleResponse
       ELSE /\ settleResponse' = [settleResponse EXCEPT ![r] = <<s>>]
            /\ IF SettleRejected(s)
               THEN AbortWithStatusJSON(r, SettleFailedResponse(s, paymentRequirements[r][1]))
               ELSE /\ pc' = [pc EXCEPT ![r] = "success"]
                    /\ UNCHANGED <<resp, aborted>>
    /\ UNCHANGED <<gate, request, body, keys, handlerRuns, requestBody,
                   paymentRequirements, paymentPayload, verifyResponse, encodeErr,
                   downstreamBody, handlerResult>>

\* mutant: a failed encoding of the settle response is answered 500
GateSuccess_EncodeFatal(r, encodeOk) ==
    /\ pc[r] = "success"
    /\ encodeErr' = [encodeErr EXCEPT ![r] = <<~encodeOk>>]
    /\ IF encodeOk
       THEN /\ resp' = [resp EXCEPT ![r].xPaymentResponse =
                          PaymentResponseHeader(FALSE, settleResponse[r][1])]
            /\ keys' = [keys EXCEPT ![r][PaymentDataKey] =
                          <<NewPaymentData(paymentPayload[r][1], settleResponse[r][1],
                                           paymentRequirements[r][1],
                                           verifyResponse[r][1], requestBody[r])>>]
            /\ pc' = [pc EXCEPT ![r] = "handler"]
            /\ UNCHANGED aborted
       ELSE /\ AbortWithStatusJSON(r, ErrorBody(StatusInternalServerError,
                   "Failed to encode settle response", <<>>, <<x402Version>>))
            /\ UNCHANGED keys
    /\ UNCHANGED <<gate, request, body, handlerRuns, calls, requestBody,
                   paymentRequirements, paymentPayload, verifyResponse, settleResponse,
                   downstreamBody, handlerResult>>

\* X-PAYMENT-RESPONSE header (best effort), PaymentData into the context, c.Next()
GateSuccess(r, encodeOk) ==
    /\ pc[r] = "success"
    /\ encodeErr' = [encodeErr EXCEPT ![r] = <<~encodeOk>>]
    /\ resp' = [resp EXCEPT ![r].xPaymentResponse =
                   PaymentResponseHeader(~encodeOk, settleResponse[r][1])]
    /\ keys' = [keys EXCEPT ![r][PaymentDataKey] =
                   <<NewPaymentData(paymentPayload[r][1], settleResponse[r][1],
                                    paymentRequirements[r][1], verifyResponse[r][1],
                                    requestBody[r])>>]
    /\ pc' = [pc EXCEPT ![r] = "handler"]
    /\ UNCHANGED <<gate, request, body, aborted, handlerRuns, calls, requestBody,
                   paymentRequirements, paymentPayload, verifyResponse, settleResponse,
                   downstreamBody, handlerResult>>

(***************************************************************************)
(* The protected handler, reached through c.Next()                         *)
(***************************************************************************)
\* processOrder: GetPaymentData, UnmarshalOrderData, then 400 or 200; a panic
\* (the failed assertion, or the use of a nil *PaymentData) ends the handler
ProcessOrder(r) ==
    LET g == GetPaymentData(keys[r]) IN
    IF g.panic \/ g.data = <<>>
    THEN /\ handlerResult' = [handlerResult EXCEPT ![r] =
                <<[panic |-> g.panic, data |-> <<>>, err |-> "", order |-> ZeroOrder]>>]
         /\ pc' = [pc EXCEPT ![r] = "crashed"]
         /\ UNCHANGED resp
    ELSE LET u == UnmarshalOrderData(g.data[1], ZeroOrder) IN
         /\ handlerResult' = [handlerResult EXCEPT ![r] =
                <<[panic |-> FALSE, data |-> g.data, err |-> u.err, order |-> u.v]>>]
         /\ resp' = [resp EXCEPT ![r].status = IF u.err # "" THEN StatusBadRequest ELSE 200,
                                 ![r].error = IF u.err # "" THEN "Invalid order data" ELSE @]
         /\ pc' = [pc EXCEPT ![r] = "done"]

ProtectedHandler(r) ==
    /\ pc[r] = "handler"
    /\ handlerRuns' = [handlerRuns EXCEPT ![r] = @ + 1]
    /\ downstreamBody' = [downstreamBody EXCEPT ![r] = ReadAll(body[r]).bytes]
    /\ body' = [body EXCEPT ![r] = Drained(body[r])]
    /\ ProcessOrder(r)
    /\ UNCHANGED <<gate, request, keys, aborted, calls, gateLocals>>

\* the same handler on a route that has no gate ahead of it
UngatedHandler(r) ==
    /\ pc[r] = "upstream"
    /\ ProcessOrder(r)
    /\ UNCHANGED <<gate, request, body, keys, aborted, handlerRuns, calls, gateLocals,
                   downstreamBody>>

Next ==
    \/ \E cfg \in ConfigInputs :
          SignPayMiddleware(cfg.chainId, cfg.tokenAmount, cfg.apiKey, cfg.resource)
    \/ \E r \in Requests, b \in BodyInputs, h \in HeaderInputs, tls \in BOOLEAN :
          Arrive(r, b, h, tls)
    \/ \E r \in Requests : NoUpstream(r)
    \/ \E r \in Requests : ValidateOrderAbort(r)
    \/ \E r \in Requests : CalculateOrderTotal(r)
    \/ \E r \in Requests, v \in AmountValues : SetAmount(r, v)
    \/ \E r \in Requests : GateBody(r)
    \/ \E r \in Requests : GateRequirements(r)
    \/ \E r \in Requests : GatePayload(r)
    \/ \E r \in Requests : VerifyCall(r)
    \/ \E r \in Requests, v \in VerifyResults : VerifyReturn(r, v)
    \/ \E r \in Requests : SettleCall(r)
    \/ \E r \in Requests, s \in SettleResults : SettleReturn(r, s)
    \/ \E r \in Requests, encodeOk \in BOOLEAN : GateSuccess(r, encodeOk)
    \/ \E r \in Requests : ProtectedHandler(r)
    \/ \E r \in Requests : UngatedHandler(r)

Spec == Init /\ [][Next]_vars

(***************************************************************************)
(* Several requests in flight on one gate instance: gin serves each        *)
(* request on its own goroutine with its own *gin.Context, and all of them *)
(* run the one closure SignPayMiddleware returned. The steps are the       *)
(* steps of Spec, interleaved.                                             *)
(***************************************************************************)
ConcRequests == {"r1", "r2"}
ConcConfigInputs ==
    { [chainId |-> 84532, tokenAmount |-> "1000000", apiKey |-> "secret-key",
       resource |-> ""],
      [chainId |-> 8453, tokenAmount |-> "", apiKey |-> "", resource |-> ""] }
ConcBodyInputs == {NilBody, Stream(<<"{", "}">>, FALSE)}
ConcHeaderInputs ==
    {<<>>, <<[name |-> "X-PAYMENT", value |-> PayloadV1B64]>>,
           <<[name |-> "X-PAYMENT", value |-> PayloadV2B64]>>}
ConcAmountValues == {StringValue("250000")}
ConcVerifyResults ==
    { [err |-> "", IsValid |-> TRUE, InvalidReason |-> <<>>],
      [err |-> "", IsValid |-> FALSE, InvalidReason |-> <<"insufficient_funds">>] }
ConcSettleResults ==
    { [err |-> "", Success |-> TRUE, ErrorReason |-> <<>>, Transaction |-> "0xabc"],
      [err |-> "", Success |-> TRUE, ErrorReason |-> <<>>, Transaction |-> "0xdef"],
      [err |-> TransportError, Success |-> FALSE, ErrorReason |-> <<>>,
       Transaction |-> ""] }

InitConc ==
    /\ gate = [state |-> "unbuilt", chainId |-> 0, network |-> "", tokenAmount |-> "",
               apiKey |-> "", resource |-> "", createAuthHeaders |-> <<>>]
    /\ pc = [r \in ConcRequests |-> "new"]
    /\ request = [r \in ConcRequests |-> [header |-> <<>>, tls |-> FALSE,
                                          host |-> RequestHost, path |-> RequestPath,
                                          body |-> NilBody]]
    /\ body = [r \in ConcRequests |-> NilBody]
    /\ keys = [r \in ConcRequests |-> EmptyKeys]
    /\ resp = [r \in ConcRequests |-> NoResponse]
    /\ aborted = [r \in ConcRequests |-> FALSE]
    /\ handlerRuns = [r \in ConcRequests |-> 0]
    /\ calls = [r \in ConcRequests |-> <<>>]
    /\ requestBody = [r \in ConcRequests |-> <<>>]
    /\ paymentRequirements = [r \in ConcRequests |-> <<>>]
    /\ paymentPayload = [r \in ConcRequests |-> <<>>]
    /\ verifyResponse = [r \in ConcRequests |-> <<>>]
    /\ settleResponse = [r \in ConcRequests |-> <<>>]
    /\ encodeErr = [r \in ConcRequests |-> <<>>]
    /\ downstreamBody = [r \in ConcRequests |-> <<>>]
    /\ handlerResult = [r \in ConcRequests |-> <<>>]

NextConc ==
    \/ \E cfg \in ConcConfigInputs :
          SignPayMiddleware(cfg.chainId, cfg.tokenAmount, cfg.apiKey, cfg.resource)
    \/ \E r \in ConcRequests, b \in ConcBodyInputs, h \in ConcHeaderInputs :
          Arrive(r, b, h, FALSE)
    \/ \E r \in ConcRequests : NoUpstream(r)
    \/ \E r \in ConcRequests, v \in ConcAmountValues : SetAmount(r, v)
    \/ \E r \in ConcRequests : GateBody(r)
    \/ \E r \in ConcRequests : GateRequirements(r)
    \/ \E r \in ConcRequests : GatePayload(r)
    \/ \E r \in ConcRequests : VerifyCall(r)
    \/ \E r \in ConcRequests, v \in ConcVerifyResults : VerifyReturn(r, v)
    \/ \E r \in ConcRequests : SettleCall(r)
    \/ \E r \in ConcRequests, s \in ConcSettleResults : SettleReturn(r, s)
    \/ \E r \in ConcRequests : GateSuccess(r, TRUE)
    \/ \E r \in ConcRequests : ProtectedHandler(r)

SpecConc == InitConc /\ [][NextConc]_vars

(***************************************************************************)
(* The packages/server/go variant of SignPayMiddleware: static amount,     *)
(* header "X-Payment", error bodies with "error" only, and a direct POST   *)
(* to the facilitator's /verify (debugFacilitatorError) when Verify fails. *)
(* calls[r] logs the HTTP requests sent to the facilitator, with the       *)
(* sender of each.                                                         *)
(***************************************************************************)
PkgConfigInputs ==
    [chainId : {84532, 8453, 5}, tokenAmount : TokenAmountInputs, apiKey : APIKeyInputs]
\* what http.DefaultClient.Do gives debugFacilitatorError
DebugResults ==
    { [err |-> TransportError, status |-> 0], [err |-> "", status |-> 400] }

\* the POST facilitatorClient.Verify / Settle sends
PkgClientRequest(op, r) ==
    [op |-> op, sender |-> "facilitatorClient",
     paymentPayload |-> paymentPayload[r][1],
     paymentRequirements |-> paymentRequirements[r][1],
     authorization |-> AuthorizationFor(gate.createAuthHeaders, op),
     result |-> <<>>]
\* the POST to facilitatorURL + "/verify" of debugFacilitatorError, answered by d
PkgDebugRequest(r, d) ==
    [op |-> "verify", sender |-> "debugFacilitatorError",
     paymentPayload |-> paymentPayload[r][1],
     paymentRequirements |-> paymentRequirements[r][1],
     authorization |-> IF gate.apiKey # "" THEN <<"Bearer " \o gate.apiKey>> ELSE <<>>,
     result |-> <<d>>]

\* the requirements, from the static configuration and the request
PkgRequirements(r) ==
    /\ pc[r] = "amount"
    /\ paymentRequirements' = [paymentRequirements EXCEPT ![r] =
          <<NewPaymentRequirements(gate.network, gate.tokenAmount,
                                   ResourceURL("", request[r]))>>]
    /\ pc' = [pc EXCEPT ![r] = "payload"]
    /\ UNCHANGED <<gate, request, body, keys, resp, aborted, handlerRuns, calls,
                   requestBody, paymentPayload, verifyResponse, settleResponse,
                   encodeErr, downstreamBody, handlerResult>>

\* the X-Payment header and its payload
PkgPayload(r) ==
    /\ pc[r] = "payload"
    /\ LET payment == GetHeader(request[r], "X-Payment")
           d == DecodePaymentPayloadFromBase64(payment) IN
       IF HeaderMissing(payment)
       THEN /\ AbortWithStatusJSON(r, ErrorBody(StatusPaymentRequired,
                                      "X-Payment header is required", <<>>, <<>>))
            /\ UNCHANGED paymentPayload
       ELSE IF d.err # ""
       THEN /\ AbortWithStatusJSON(r, ErrorBody(StatusBadRequest,
                                      "Invalid payment payload: " \o d.err, <<>>, <<>>))
            /\ UNCHANGED paymentPayload
       ELSE /\ paymentPayload' = [paymentPayload EXCEPT ![r] =
                   <<StampVersion(d.payload[1])>>]
            /\ pc' = [pc EXCEPT ![r] = "verify"]
            /\ UNCHANGED <<resp, aborted>>
    /\ UNCHANGED <<gate, request, body, keys, handlerRuns, calls, requestBody,
                   paymentRequirements, verifyResponse, settleResponse, encodeErr,
                   downstreamBody, handlerResult>>

\* facilitatorClient.Verify is issued
PkgVerifyCall(r) ==
    /\ pc[r] = "verify"
    /\ calls' = [calls EXCEPT ![r] = Append(@, PkgClientRequest("verify", r))]
    /\ pc' = [pc EXCEPT ![r] = "verifying"]
    /\ UNCHANGED <<gate, request, body, keys, resp, aborted, handlerRuns, gateLocals,
                   downstreamBody, handlerResult>>

\* Verify returns v; on an error debugFacilitatorError posts to /verify itself
\* (answered by d) before the 500 is written
PkgVerifyReturn(r, v, d) ==
    /\ pc[r] = "verifying"
    /\ IF VerifyFailed(v)
       THEN /\ calls' = [calls EXCEPT ![r] =
                          Append(Returned(@, v), PkgDebugRequest(r, d))]
            /\ AbortWithStatusJSON(r, ErrorBody(StatusInternalServerError,
                   "Payment verification failed: " \o v.err, <<>>, <<>>))
            /\ UNCHANGED verifyResponse
       ELSE /\ calls' = [calls EXCEPT ![r] = Returned(@, v)]
            /\ verifyResponse' = [verifyResponse EXCEPT ![r] = <<v>>]
            /\ IF VerifyRejected(v)
               THEN AbortWithStatusJSON(r, ErrorBody(StatusPaymentRequired,
                       "Payment verification failed: " \o
                       (IF v.InvalidReason # <<>> THEN v.InvalidReason[1]
                        ELSE "unknown reason"), <<>>, <<>>))
               ELSE /\ pc' = [pc EXCEPT ![r] = "settle"]
                    /\ UNCHANGED <<resp, aborted>>
    /\ UNCHANGED <<gate, request, body, keys, handlerRuns, requestBody,
                   paymentRequirements, paymentPayload, settleResponse, encodeErr,
                   downstreamBody, handlerResult>>

\* facilitatorClient.Settle is issued
PkgSettleCall(r) ==
    /\ pc[r] = "settle"
    /\ calls' = [calls EXCEPT ![r] = Append(@, PkgClientRequest("settle", r))]
    /\ pc' = [pc EXCEPT ![r] = "settling"]
    /\ UNCHANGED <<gate, request, body, keys, resp, aborted, handlerRuns, gateLocals,
                   downstreamBody, handlerResult>>

\* Settle returns s
PkgSettleReturn(r, s) ==
    /\ pc[r] = "settling"
    /\ calls' = [calls EXCEPT ![r] = Returned(@, s)]
    /\ IF SettleFailed(s)
       THEN /\ AbortWithStatusJSON(r, ErrorBody(StatusInternalServerError,
                   "Payment settlement failed: " \o s.err, <<>>, <<>>))
            /\ UNCHANGED settleResponse
       ELSE /\ settleResponse' = [settleResponse EXCEPT ![r] = <<s>>]
            /\ IF SettleRejected(s)
               THEN AbortWithStatusJSON(r, ErrorBody(StatusPaymentRequired,
                       "Payment settlement failed: " \o
                       (IF s.ErrorReason # <<>> THEN s.ErrorReason[1]
                        ELSE "Settlement was not successful"), <<>>, <<>>))
               ELSE /\ pc' = [pc EXCEPT ![r] = "success"]
                    /\ UNCHANGED <<resp, aborted>>
    /\ UNCHANGED <<gate, request, body, keys, handlerRuns, requestBody,
                   paymentRequirements, paymentPayload, verifyResponse, encodeErr,
                   downstreamBody, handlerResult>>

\* c.Set(PaymentDataKey, paymentData); c.Next()
PkgSuccess(r) ==
    /\ pc[r] = "success"
    /\ keys' = [keys EXCEPT ![r][PaymentDataKey] =
                   <<NewPaymentData(paymentPayload[r][1], settleResponse[r][1],
                                    paymentRequirements[r][1], verifyResponse[r][1],
                                    requestBody[r])>>]
    /\ pc' = [pc EXCEPT ![r] = "handler"]
    /\ UNCHANGED <<gate, request, body, resp, aborted, handlerRuns, calls, gateLocals,
                   downstreamBody, handlerResult>>

\* the body capture of the variant is that of GateBody, the construction that of
\* SignPayMiddleware without WithResource
NextPkg ==
    \/ \E cfg \in PkgConfigInputs :
          SignPayMiddleware(cfg.chainId, cfg.tokenAmount, cfg.apiKey, "")
    \/ \E r \in Requests, b \in BodyInputs, h \in HeaderInputs, tls \in BOOLEAN :
          Arrive(r, b, h, tls)
    \/ \E r \in Requests : NoUpstream(r)
    \/ \E r \in Requests : GateBody(r)
    \/ \E r \in Requests : PkgRequirements(r)
    \/ \E r \in Requests : PkgPayload(r)
    \/ \E r \in Requests : PkgVerifyCall(r)
    \/ \E r \in Requests, v \in VerifyResults, d \in DebugResults :
          PkgVerifyReturn(r, v, d)
    \/ \E r \in Requests : PkgSettleCall(r)
    \/ \E r \in Requests, s \in SettleResults : PkgSettleReturn(r, s)
    \/ \E r \in Requests : PkgSuccess(r)
    \/ \E r \in Requests : ProtectedHandler(r)

SpecPkg == Init /\ [][NextPkg]_vars

(***************************************************************************)
(* Vocabulary of the properties                                            *)
(***************************************************************************)
\* c.Next() was called by the gate: the protected handler is running or ran
Forwarded(r) == pc[r] = "handler" \/ handlerRuns[r] > 0
HasPaymentData(r) == keys[r][PaymentDataKey] # <<>>
StoredPaymentData(r) == keys[r][PaymentDataKey][1]
\* the gate ran and is over: it aborted, panicked or forwarded
GateFinished(r) == pc[r] \in {"handler", "done", "panic"}
\* what the facilitator answered to the calls of kind op
Answers(r, op) ==
    { calls[r][i].result[1] :
        i \in { j \in 1..Len(calls[r]) :
                  calls[r][j].op = op /\ calls[r][j].result # <<>> } }
Issued(r, op) == \E i \in 1..Len(calls[r]) : calls[r][i].op = op
VerifySucceeded(r) == \E v \in Answers(r, "verify") : v.err = "" /\ v.IsValid
SettleSucceeded(r) == \E s \in Answers(r, "settle") : s.err = "" /\ s.Success
\* the request as the client sent it
HeaderAbsentOrEmpty(r) ==
    request[r].header = <<>> \/ request[r].header[1].value = ""
HeaderUndecodable(r) ==
    request[r].header # <<>> /\ request[r].header[1].value \in {NotBase64, NotJSONB64}
\* the amount the specification prescribes: the override if present, else the static one
OverridePresent(r) == keys[r][AmountKey] # <<>>
ExpectedAmount(r) ==
    IF OverridePresent(r) THEN keys[r][AmountKey][1].val ELSE gate.tokenAmount
AmountAvailable(r) ==
    /\ OverridePresent(r) => keys[r][AmountKey][1].type = "string"
    /\ ExpectedAmount(r) # ""
\* the gate's read of the body failed: the stream it drained is in its error state
BodyReadFailed(r) == body[r].err

(***************************************************************************)
(* C1: the next handler is invoked and PaymentData is in the context if    *)
(* and only if Verify returned without error with IsValid=true and Settle  *)
(* returned without error with Success=true; on every other finished run   *)
(* the handler never ran, no PaymentData is present, and a run that ended  *)
(* with a response was aborted.                                            *)
(***************************************************************************)
C1_ForwardedIffVerifiedAndSettled ==
    \A r \in Requests :
        /\ Forwarded(r) <=> HasPaymentData(r)
        /\ Forwarded(r) => VerifySucceeded(r) /\ SettleSucceeded(r) /\ ~aborted[r]
        /\ GateFinished(r) /\ VerifySucceeded(r) /\ SettleSucceeded(r) => Forwarded(r)
        /\ ~Forwarded(r) => handlerRuns[r] = 0
        /\ pc[r] = "done" /\ ~Forwarded(r) => aborted[r]

C1_Witness ==
    \E r \in Requests :
        pc[r] = "done" /\ handlerRuns[r] = 1 /\ HasPaymentData(r) /\ SettleSucceeded(r)

(***************************************************************************)
(* C2: Settle is issued only after Verify for the same request returned    *)
(* without error and with IsValid=true; no call is issued while another is *)
(* in flight, so Settle never runs before or concurrently with Verify.     *)
(***************************************************************************)
C2_SettleOnlyAfterValidVerify ==
    \A r \in Requests :
        \A i \in 1..Len(calls[r]) :
            /\ i < Len(calls[r]) => calls[r][i].result # <<>>
            /\ calls[r][i].op = "settle" =>
                  /\ i > 1
                  /\ calls[r][i - 1].op = "verify"
                  /\ calls[r][i - 1].result # <<>>
                  /\ calls[r][i - 1].result[1].err = ""
                  /\ calls[r][i - 1].result[1].IsValid

C2_Witness ==
    \E r \in Requests : pc[r] = "settling" /\ Issued(r, "settle")

(***************************************************************************)
(* C3: when Verify returns a transport error the gate answers 500, Settle  *)
(* is never called and the next handler is not invoked.                    *)
(***************************************************************************)
C3_VerifyTransportError500 ==
    \A r \in Requests :
        (\E v \in Answers(r, "verify") : v.err # "") =>
            /\ resp[r].status = StatusInternalServerError
            /\ pc[r] = "done"
            /\ aborted[r]
            /\ ~Issued(r, "settle")
            /\ ~Forwarded(r)

C3_Witness ==
    \E r \in Requests : \E v \in Answers(r, "verify") : v.err = TransportError

(***************************************************************************)
(* C4 as stated: every request with an absent or empty X-PAYMENT header    *)
(* for which an amount is available is answered 402 with exactly the       *)
(* requirements built for it under "accepts" and x402Version 1, and no     *)
(* facilitator call is made.                                               *)
(***************************************************************************)
PriceDiscoveryResponse(r) ==
    /\ resp[r].status = StatusPaymentRequired
    /\ paymentRequirements[r] # <<>>
    /\ resp[r].accepts = paymentRequirements[r]
    /\ Len(resp[r].accepts) = 1
    /\ resp[r].accepts[1].MaxAmountRequired = ExpectedAmount(r)
    /\ resp[r].x402Version = <<1>>
    /\ calls[r] = <<>>

C5_Original ==
    \A r \in Requests :
        GateFinished(r) /\ HeaderUndecodable(r)
            => resp[r].status = StatusBadRequest /\ calls[r] = <<>>

(***************************************************************************)
(* C5 amended: the same, for the requests for which an amount is available *)
(* (the amount is resolved before the header is read).                     *)
(***************************************************************************)
C5_UndecodablePayload400 ==
    \A r \in Requests :
        GateFinished(r) /\ HeaderUndecodable(r) /\ AmountAvailable(r)
            => resp[r].status = StatusBadRequest /\ calls[r] = <<>>

C5_Witness ==
    \E r \in Requests :
        /\ GateFinished(r) /\ HeaderUndecodable(r) /\ ~BodyReadFailed(r)
        /\ request[r].header[1].value = NotJSONB64
        /\ resp[r].status = StatusBadRequest

(***************************************************************************)
(* C6: MaxAmountRequired of the requirements built for a request, and of   *)
(* the requirements sent to the facilitator, is the "signpay:amount"       *)
(* context value whenever one is present (also when a static amount is     *)
(* configured), and the static tokenAmount otherwise.                      *)
(***************************************************************************)
C6_AmountOverridePrecedence ==
    \A r \in Requests :
        /\ paymentRequirements[r] # <<>> =>
              paymentRequirements[r][1].MaxAmountRequired = ExpectedAmount(r)
        /\ \A i \in 1..Len(calls[r]) :
              calls[r][i].paymentRequirements.MaxAmountRequired = ExpectedAmount(r)

C6_Witness ==
    \E r \in Requests :
        /\ OverridePresent(r) /\ gate.tokenAmount = "1000000"
        /\ Issued(r, "verify")
        /\ calls[r][1].paymentRequirements.MaxAmountRequired = "250000"

(***************************************************************************)
(* C7 as stated: with an empty static tokenAmount and no override the gate *)
(* answers 500 whether or not the X-PAYMENT header is present, and no      *)
(* facilitator call is made.                                               *)
(***************************************************************************)
C7_Original ==
    \A r \in Requests :
        GateFinished(r) /\ gate.tokenAmount = "" /\ ~OverridePresent(r)
            => resp[r].status = StatusInternalServerError /\ calls[r] = <<>>

(***************************************************************************)
(* C7 amended: the same, for the requests whose body the gate read without *)
(* a stream error (the body is read before the amount is resolved).        *)
(***************************************************************************)
C7_NoAmount500 ==
    \A r \in Requests :
        GateFinished(r) /\ ~BodyReadFailed(r) /\ gate.tokenAmount = ""
                        /\ ~OverridePresent(r)
            => resp[r].status = StatusInternalServerError /\ calls[r] = <<>>

C7_Witness ==
    \E r \in Requests :
        /\ GateFinished(r) /\ gate.tokenAmount = "" /\ ~OverridePresent(r)
        /\ request[r].header # <<>> /\ request[r].header[1].value = PayloadV1B64
        /\ resp[r].status = StatusInternalServerError

(***************************************************************************)
(* C8: construction yields a gate whose network is the table's name for    *)
(* the chain ID, for every chain ID of chainIDToNetwork, and panics for    *)
(* every other chain ID; no request is served unless construction          *)
(* succeeded.                                                              *)
(***************************************************************************)
C8_ConstructionResolvesNetwork ==
    /\ gate.state = "ready" => <<gate.chainId, gate.network>> \in chainIDToNetwork
    /\ gate.state = "panic" => \A e \in chainIDToNetwork : e[1] # gate.chainId
    /\ \A r \in Requests : pc[r] # "new" => gate.state = "ready"

C8_Witness ==
    /\ gate.state = "ready" /\ gate.chainId = 84532 /\ gate.network = "base-sepolia"
    /\ \E r \in Requests : pc[r] = "done"

(***************************************************************************)
(* C9: for a request body that reads without a stream error, the body is   *)
(* back in c.Request.Body once the gate has captured it, the downstream    *)
(* handler reads bytes identical to the original body, and                 *)
(* PaymentData.RequestBody holds those bytes when the body is non-empty.   *)
(***************************************************************************)
C9_BodyRoundTrip ==
    \A r \in Requests :
        ~request[r].body.err =>
            /\ pc[r] \in {"amount", "payload", "verify", "verifying", "settle",
                          "settling", "success", "handler", "panic"}
                  => body[r].data = request[r].body.data
            /\ pc[r] = "done" /\ handlerRuns[r] = 0
                  => body[r].data = request[r].body.data
            /\ handlerRuns[r] > 0 => downstreamBody[r] = request[r].body.data
            /\ HasPaymentData(r) /\ request[r].body.data # <<>>
                  => StoredPaymentData(r).RequestBody = request[r].body.data

C9_Witness ==
    \E r \in Requests :
        /\ handlerRuns[r] = 1 /\ Len(request[r].body.data) >= 2
        /\ downstreamBody[r] = request[r].body.data
        /\ StoredPaymentData(r).RequestBody = request[r].body.data

(***************************************************************************)
(* C10: when Verify and Settle both succeed the next handler runs exactly  *)
(* once, and the PaymentData it receives holds the value Verify returned,  *)
(* the value Settle returned, the payload decoded from the header (carrying*)
(* the gate's protocol version) and the requirements built for the request.*)
(***************************************************************************)
C10_PaymentDataFields ==
    \A r \in Requests :
        /\ handlerRuns[r] <= 1
        /\ pc[r] = "done" /\ VerifySucceeded(r) /\ SettleSucceeded(r)
              => handlerRuns[r] = 1
        /\ HasPaymentData(r) =>
              LET pd == StoredPaymentData(r)
                  decoded == DecodePaymentPayloadFromBase64(request[r].header[1].value)
              IN  /\ Answers(r, "verify") = {pd.VerifyResponse}
                  /\ Answers(r, "settle") = {pd.SettleResponse}
                  /\ decoded.err = ""
                  /\ pd.PaymentPayload =
                        [decoded.payload[1] EXCEPT !.X402Version = x402Version]
                  /\ pd.PaymentRequirements = paymentRequirements[r][1]
                  /\ pd.PaymentRequirements = calls[r][1].paymentRequirements

C10_Witness ==
    \E r \in Requests :
        /\ pc[r] = "done" /\ handlerRuns[r] = 1
        /\ StoredPaymentData(r).SettleResponse.Transaction = "0xabc"
        /\ StoredPaymentData(r).VerifyResponse.IsValid

(***************************************************************************)
(* C11: on a run where settlement succeeded the response carries the       *)
(* X-PAYMENT-RESPONSE header with the base64 encoding of the settle        *)
(* response when the encoding succeeds; when it fails the header is        *)
(* omitted, and either way PaymentData is stored and the next handler is   *)
(* invoked, never an error response.                                       *)
(***************************************************************************)
C11_PaymentResponseHeaderBestEffort ==
    \A r \in Requests :
        /\ GateFinished(r) /\ SettleSucceeded(r) => encodeErr[r] # <<>>
        /\ encodeErr[r] # <<>> =>
              /\ SettleSucceeded(r)
              /\ Forwarded(r) /\ HasPaymentData(r) /\ ~aborted[r]
              /\ resp[r].status = 0 \/ handlerRuns[r] > 0
              /\ ~encodeErr[r][1] =>
                    \E s \in Answers(r, "settle") :
                        resp[r].xPaymentResponse = <<EncodeToBase64String(s)>>
              /\ encodeErr[r][1] => resp[r].xPaymentResponse = <<>>

C11_Witness ==
    \E r \in Requests :
        /\ pc[r] = "done" /\ encodeErr[r] = <<TRUE>> /\ handlerRuns[r] = 1
        /\ HasPaymentData(r) /\ resp[r].xPaymentResponse = <<>>

(***************************************************************************)
(* C12: when Verify returns without error and IsValid=false the gate       *)
(* answers 402, the error text carries the facilitator's InvalidReason, or *)
(* "unknown reason" when there is none, and "accepts" holds the            *)
(* requirements that were sent to Verify.                                  *)
(***************************************************************************)
C12_VerifyInvalid402 ==
    \A r \in Requests :
        \A v \in Answers(r, "verify") :
            v.err = "" /\ ~v.IsValid =>
                /\ pc[r] = "done" /\ aborted[r]
                /\ resp[r].status = StatusPaymentRequired
                /\ resp[r].error =
                      "Payment verification failed: " \o
                      (IF v.InvalidReason = <<>> THEN "unknown reason"
                       ELSE v.InvalidReason[1])
                /\ resp[r].accepts = <<calls[r][1].paymentRequirements>>

C12_Witness ==
    \E r \in Requests :
        /\ \E v \in Answers(r, "verify") : v.InvalidReason = <<"insufficient_funds">>
        /\ resp[r].error = "Payment verification failed: insufficient_funds"

(***************************************************************************)
(* C13: after a successful verification a Settle transport error is        *)
(* answered 500, and a Settle response with Success=false is answered 402  *)
(* with ErrorReason (or "Settlement was not successful") in the error text *)
(* and the requirements under "accepts"; in both cases the next handler is *)
(* not invoked and no X-PAYMENT-RESPONSE header is set.                    *)
(***************************************************************************)
C13_SettleFailureResponses ==
    \A r \in Requests :
        \A s \in Answers(r, "settle") :
            /\ s.err # "" => resp[r].status = StatusInternalServerError
            /\ s.err = "" /\ ~s.Success =>
                  /\ resp[r].status = StatusPaymentRequired
                  /\ resp[r].error =
                        "Payment settlement failed: " \o
                        (IF s.ErrorReason = <<>> THEN "Settlement was not successful"
                         ELSE s.ErrorReason[1])
                  /\ resp[r].accepts = <<calls[r][Len(calls[r])].paymentRequirements>>
            /\ s.err # "" \/ ~s.Success =>
                  /\ pc[r] = "done" /\ aborted[r]
                  /\ ~Forwarded(r) /\ handlerRuns[r] = 0
                  /\ resp[r].xPaymentResponse = <<>>

C13_Witness ==
    \E r \in Requests :
        /\ \E s \in Answers(r, "settle") : s.ErrorReason = <<"insufficient_funds">>
        /\ resp[r].error = "Payment settlement failed: insufficient_funds"

(***************************************************************************)
(* C14: per request the gate calls Verify at most once and Settle at most  *)
(* once, and a facilitator call that failed (transport error, invalid, not *)
(* successful) is the last call of the request: no retry.                  *)
(***************************************************************************)
CallFailed(c) ==
    /\ c.result # <<>>
    /\ \/ c.result[1].err # ""
       \/ c.op = "verify" /\ ~c.result[1].IsValid
       \/ c.op = "settle" /\ ~c.result[1].Success

C14_NoRetry ==
    \A r \in Requests :
        /\ Cardinality({ i \in 1..Len(calls[r]) : calls[r][i].op = "verify" }) <= 1
        /\ Cardinality({ i \in 1..Len(calls[r]) : calls[r][i].op = "settle" }) <= 1
        /\ \A i \in 1..Len(calls[r]) : CallFailed(calls[r][i]) => i = Len(calls[r])
        /\ (\E i \in 1..Len(calls[r]) : CallFailed(calls[r][i])) => pc[r] = "done"

C14_Witness ==
    \E r \in Requests :
        /\ pc[r] = "done" /\ Len(calls[r]) = 1
        /\ calls[r][1].result # <<>> /\ calls[r][1].result[1].err = TransportError

(***************************************************************************)
(* C15 as stated: every error response of the gate has a status in         *)
(* {400, 402, 500} and a body with an "error" string and "x402Version": 1, *)
(* on all failure paths, the body read failure included.                   *)
(***************************************************************************)
C15_Original ==
    \A r \in Requests :
        pc[r] = "done" /\ aborted[r] =>
            /\ resp[r].status \in {StatusBadRequest, StatusPaymentRequired,
                                   StatusInternalServerError}
            /\ resp[r].error # ""
            /\ resp[r].x402Version = <<1>>

(***************************************************************************)
(* C16: with a non-empty API key every Verify and every Settle call        *)
(* carries Authorization: Bearer <key>; with no or an empty API key no     *)
(* auth-header provider is installed and no call carries the credential.   *)
(***************************************************************************)
C16_BearerOnEveryCall ==
    /\ gate.state = "ready" => (gate.createAuthHeaders = <<>> <=> gate.apiKey = "")
    /\ \A r \in Requests :
          \A i \in 1..Len(calls[r]) :
              calls[r][i].authorization =
                  IF gate.apiKey # "" THEN <<"Bearer " \o gate.apiKey>> ELSE <<>>

C16_Witness ==
    \E r \in Requests :
        /\ Issued(r, "settle")
        /\ \A i \in 1..Len(calls[r]) :
              calls[r][i].authorization = <<"Bearer secret-key">>

(***************************************************************************)
(* C17: if the validation middleware ahead of the gate aborts the request, *)
(* the gate does not run for it: the chain has stopped, neither Verify nor *)
(* Settle is called, nothing is captured or stored, no handler runs.       *)
(***************************************************************************)
ValidationRejected(r) == resp[r].error = "Email required"

C17_RejectedUpstreamNeverCharged ==
    \A r \in Requests :
        ValidationRejected(r) =>
            /\ pc[r] = "rejected" /\ aborted[r]
            /\ calls[r] = <<>>
            /\ paymentRequirements[r] = <<>> /\ paymentPayload[r] = <<>>
            /\ ~HasPaymentData(r) /\ ~Forwarded(r)
            /\ resp[r].status = StatusBadRequest

C17_Witness ==
    \E r \in Requests :
        /\ pc[r] = "rejected" /\ ValidationRejected(r)
        /\ request[r].header # <<>> /\ request[r].header[1].value = PayloadV1B64

C20_NoFailureAfterSettlement ==
    \A r \in Requests :
        SettleSucceeded(r) =>
            /\ pc[r] \in {"success", "handler", "done"}
            /\ ~aborted[r]
            /\ resp[r].status = 0 \/ handlerRuns[r] > 0
            /\ pc[r] = "success" =>
                  ENABLED GateSuccess(r, TRUE) /\ ENABLED GateSuccess(r, FALSE)
            /\ pc[r] \in {"handler", "done"} => HasPaymentData(r) /\ Forwarded(r)

C20_Witness ==
    \E r \in Requests :
        /\ SettleSucceeded(r) /\ pc[r] = "done" /\ encodeErr[r] = <<TRUE>>
        /\ HasPaymentData(r) /\ resp[r].status = 200

(***************************************************************************)
(* C19: with several requests in flight on one gate instance, in any       *)
(* interleaving, each request's amount, requirements, facilitator calls,   *)
(* response and PaymentData are functions of its own header, body, context *)
(* values and of the answers to its own calls; a step of one request       *)
(* changes nothing of another request, and the gate's configuration is     *)
(* never written once constructed.                                         *)
(***************************************************************************)
\* everything the program holds for request r
PerRequest(r) ==
    <<pc[r], request[r], body[r], keys[r], resp[r], aborted[r], handlerRuns[r],
      calls[r], requestBody[r], paymentRequirements[r], paymentPayload[r],
      verifyResponse[r], settleResponse[r], encodeErr[r], downstreamBody[r],
      handlerResult[r]>>

OwnOutcome(r) ==
    /\ requestBody[r] # <<>> => requestBody[r] = request[r].body.data
    /\ paymentRequirements[r] # <<>> =>
          paymentRequirements[r][1] =
              NewPaymentRequirements(gate.network, ExpectedAmount(r),
                                     ResourceURL(gate.resource, request[r]))
    /\ paymentPayload[r] # <<>> =>
          LET d == DecodePaymentPayloadFromBase64(GetHeader(request[r], "X-PAYMENT"))
          IN  /\ d.err = ""
              /\ paymentPayload[r][1] = [d.payload[1] EXCEPT !.X402Version = x402Version]
    /\ \A i \in 1..Len(calls[r]) :
          /\ calls[r][i].paymentPayload = paymentPayload[r][1]
          /\ calls[r][i].paymentRequirements = paymentRequirements[r][1]
    /\ verifyResponse[r] # <<>> => Answers(r, "verify") = {verifyResponse[r][1]}
    /\ settleResponse[r] # <<>> => Answers(r, "settle") = {settleResponse[r][1]}
    /\ resp[r].accepts # <<>> => resp[r].accepts = paymentRequirements[r]
    /\ HasPaymentData(r) =>
          StoredPaymentData(r) =
              NewPaymentData(paymentPayload[r][1], settleResponse[r][1],
                             paymentRequirements[r][1], verifyResponse[r][1],
                             requestBody[r])
    /\ ~OverridePresent(r) /\ paymentRequirements[r] # <<>> =>
          paymentRequirements[r][1].MaxAmountRequired = gate.tokenAmount

C19_RequestsIsolated ==
    /\ [](\A r \in DOMAIN pc : OwnOutcome(r))
    /\ [][gate.state = "ready" => gate' = gate]_vars
    /\ [][\E r \in DOMAIN pc :
            \A q \in DOMAIN pc \ {r} : PerRequest(q)' = PerRequest(q)]_vars

C19_Witness ==
    \E r \in DOMAIN pc, q \in DOMAIN pc :
        /\ r # q
        /\ pc[r] = "done" /\ pc[q] = "settling"
        /\ OverridePresent(r) /\ ~OverridePresent(q)
        /\ HasPaymentData(r) /\ ~HasPaymentData(q)
        /\ StoredPaymentData(r).PaymentRequirements.MaxAmountRequired = "250000"
        /\ calls[q][1].paymentRequirements.MaxAmountRequired = "1000000"
        /\ StoredPaymentData(r).PaymentPayload # calls[q][1].paymentPayload

(***************************************************************************)
(* C21 as stated: the 500 "Payment amount not configured" error is given   *)
(* only when the static tokenAmount is empty and no override is present in *)
(* the context; with a non-empty static amount no request gets it.         *)
(***************************************************************************)
AmountNotConfigured(r) == resp[r].error = AmountNotConfiguredResponse.error

HeaderDecodes(r) ==
    DecodePaymentPayloadFromBase64(GetHeader(request[r], "X-PAYMENT")).err = ""

C23_ResourceField ==
    \A r \in Requests :
        paymentRequirements[r] # <<>> =>
            paymentRequirements[r][1].Resource =
                IF gate.resource # ""
                THEN gate.resource
                ELSE IF request[r].tls
                THEN "https://" \o request[r].host \o request[r].path
                ELSE "http://" \o request[r].host \o request[r].path

C23_Witness ==
    \E r \in Requests :
        /\ gate.resource = "" /\ request[r].tls
        /\ Issued(r, "verify")
        /\ calls[r][1].paymentRequirements.Resource = "https://localhost:8080/api/purchase"

(***************************************************************************)
(* C24: within one request the payload is decoded once and one             *)
(* requirements value is built once; that payload and those requirements,  *)
(* unmodified, are the arguments of Verify and of Settle, the requirements *)
(* echoed in every 402 "accepts", and the values stored in PaymentData.    *)
(***************************************************************************)
C24_OnePayloadOneRequirements ==
    /\ [](\A r \in Requests :
            /\ \A i \in 1..Len(calls[r]) :
                  /\ calls[r][i].paymentPayload = paymentPayload[r][1]
                  /\ calls[r][i].paymentRequirements = paymentRequirements[r][1]
            /\ resp[r].status = StatusPaymentRequired =>
                  resp[r].accepts = <<paymentRequirements[r][1]>>
            /\ HasPaymentData(r) =>
                  /\ StoredPaymentData(r).PaymentPayload = paymentPayload[r][1]
                  /\ StoredPaymentData(r).PaymentRequirements = paymentRequirements[r][1]
                  /\ Len(calls[r]) = 2)
    /\ [][\A r \in Requests :
            /\ paymentRequirements[r] # <<>> =>
                  paymentRequirements'[r] = paymentRequirements[r]
            /\ paymentPayload[r] # <<>> => paymentPayload'[r] = paymentPayload[r]]_vars

C24_Witness ==
    \E r \in Requests :
        /\ HasPaymentData(r) /\ OverridePresent(r) /\ gate.tokenAmount = "1000000"
        /\ calls[r][1].op = "verify" /\ calls[r][2].op = "settle"
        /\ calls[r][2].paymentRequirements = StoredPaymentData(r).PaymentRequirements
        /\ calls[r][2].paymentRequirements.MaxAmountRequired = "250000"

(***************************************************************************)
(* C25: for every payload that decodes, the payload passed to Verify and   *)
(* Settle and stored in PaymentData has X402Version 1, whatever version    *)
(* the client put in the header.                                           *)
(***************************************************************************)
C25_PayloadVersionStamped ==
    \A r \in Requests :
        /\ paymentPayload[r] # <<>> => paymentPayload[r][1].X402Version = 1
        /\ \A i \in 1..Len(calls[r]) : calls[r][i].paymentPayload.X402Version = 1
        /\ HasPaymentData(r) => StoredPaymentData(r).PaymentPayload.X402Version = 1

C25_Witness ==
    \E r \in Requests :
        /\ request[r].header # <<>> /\ request[r].header[1].value = PayloadV2B64
        /\ HasPaymentData(r) /\ Len(calls[r]) = 2
        /\ StoredPaymentData(r).PaymentPayload.Payload = "sigB"

(***************************************************************************)
(* C27 as stated: the header is matched by its exact, case-sensitive name  *)
(* "X-PAYMENT"; a request carrying the payment only under "X-Payment" is   *)
(* treated as having no payment header and gets the 402 price discovery.   *)
(***************************************************************************)
PaymentUnderOtherCase(r) ==
    /\ request[r].header # <<>>
    /\ request[r].header[1].name = "X-Payment"
    /\ request[r].header[1].value # ""

C27_Original ==
    \A r \in Requests :
        GateFinished(r) /\ ~BodyReadFailed(r) /\ AmountAvailable(r)
                        /\ PaymentUnderOtherCase(r)
            => PriceDiscoveryResponse(r)

(***************************************************************************)
(* C27 amended: the header is matched without regard to the case of its    *)
(* name (c.GetHeader canonicalises it); a payment sent under "X-Payment"   *)
(* is decoded and goes to Verify exactly as one sent under "X-PAYMENT",    *)
(* and is never answered with the 402 "X-PAYMENT header is required".      *)
(***************************************************************************)
C27_HeaderNameCaseInsensitive ==
    \A r \in Requests :
        /\ GetHeader(request[r], "X-PAYMENT") =
              IF request[r].header # <<>>
                 /\ request[r].header[1].name \in {"X-PAYMENT", "X-Payment"}
              THEN request[r].header[1].value ELSE ""
        /\ GateFinished(r) /\ ~BodyReadFailed(r) /\ AmountAvailable(r)
                           /\ PaymentUnderOtherCase(r)
              => /\ resp[r].error # "X-PAYMENT header is required"
                 /\ HeaderDecodes(r) => Issued(r, "verify")

C27_Witness ==
    \E r \in Requests :
        /\ PaymentUnderOtherCase(r) /\ HasPaymentData(r) /\ handlerRuns[r] = 1
        /\ StoredPaymentData(r).PaymentPayload.Payload = "sigA"

(***************************************************************************)
(* C29 as stated: if the value under "signpay:amount" is not a string the  *)
(* gate panics at the type assertion, before the header is read and before *)
(* any facilitator call, instead of ending with a documented response or   *)
(* forwarding; for every string value it ends in a documented outcome.     *)
(***************************************************************************)
NonStringOverride(r) == OverridePresent(r) /\ keys[r][AmountKey][1].type # "string"
GateOver(r) == pc[r] \in {"handler", "done", "panic"}
DocumentedOutcome(r) ==
    \/ Forwarded(r) /\ ~aborted[r]
    \/ /\ aborted[r] /\ ~Forwarded(r)
       /\ resp[r].status \in {StatusBadRequest, StatusPaymentRequired,
                              StatusInternalServerError}

C29_Original ==
    \A r \in Requests :
        GateOver(r) =>
            IF NonStringOverride(r)
            THEN pc[r] = "panic" /\ calls[r] = <<>> /\ paymentPayload[r] = <<>>
            ELSE pc[r] # "panic" /\ DocumentedOutcome(r)

(***************************************************************************)
(* C29 amended: if the body was read without error and the value under     *)
(* "signpay:amount" is not a string, the gate panics at the type           *)
(* assertion, before the header is read and before any facilitator call,   *)
(* with no response written and nothing forwarded (a failed body read is   *)
(* answered 400 before the assertion is reached); for every string value,  *)
(* and with no override, the gate ends in a documented outcome.            *)
(***************************************************************************)
C29_NonStringOverridePanics ==
    \A r \in Requests :
        GateOver(r) =>
            IF NonStringOverride(r) /\ ~BodyReadFailed(r)
            THEN /\ pc[r] = "panic"
                 /\ calls[r] = <<>> /\ paymentPayload[r] = <<>>
                 /\ paymentRequirements[r] = <<>>
                 /\ resp[r] = NoResponse /\ ~aborted[r] /\ ~Forwarded(r)
            ELSE /\ pc[r] # "panic" /\ DocumentedOutcome(r)
                 /\ NonStringOverride(r) => resp[r] = BodyReadFailedResponse

C29_Witness ==
    \E r \in Requests :
        /\ pc[r] = "panic" /\ keys[r][AmountKey] = <<IntValue("250000")>>
        /\ request[r].header # <<>> /\ request[r].header[1].value = PayloadV1B64
        /\ calls[r] = <<>>

(***************************************************************************)
(* C26: a request with a nil or zero-length body is not an error: the gate *)
(* goes on to the following steps, PaymentData.RequestBody is empty on     *)
(* success, and UnmarshalOrderData on that PaymentData returns nil and     *)
(* leaves its argument as it was.                                          *)
(***************************************************************************)
EmptyBodySent(r) ==
    /\ pc[r] # "new"
    /\ ~request[r].body.err
    /\ request[r].body.nil \/ Len(request[r].body.data) = 0

C26_EmptyBodyIsValid ==
    \A r \in Requests :
        EmptyBodySent(r) =>
            /\ resp[r] # BodyReadFailedResponse
            /\ requestBody[r] = <<>>
            /\ pc[r] = "done" /\ handlerRuns[r] = 0 =>
                  paymentRequirements[r] # <<>> \/ AmountNotConfigured(r)
            /\ HasPaymentData(r) => Len(StoredPaymentData(r).RequestBody) = 0
            /\ handlerRuns[r] > 0 =>
                  /\ handlerResult[r][1].err = ""
                  /\ handlerResult[r][1].order = ZeroOrder
                  /\ resp[r].status = 200

C26_Witness ==
    \E r \in Requests :
        /\ EmptyBodySent(r) /\ ~request[r].body.nil
        /\ handlerRuns[r] = 1 /\ pc[r] = "done"
        /\ handlerResult[r][1].err = "" /\ StoredPaymentData(r).RequestBody = <<>>

(***************************************************************************)
(* C30: GetPaymentData in a handler that runs after a successful gate      *)
(* returns exactly the PaymentData the gate stored; on a context where no  *)
(* PaymentData was stored it panics, it does not return nil or an absence  *)
(* indicator.                                                              *)
(***************************************************************************)
C30_GetPaymentDataOrPanic ==
    \A r \in Requests :
        /\ handlerRuns[r] > 0 =>
              /\ handlerResult[r] # <<>>
              /\ ~handlerResult[r][1].panic
              /\ handlerResult[r][1].data = <<StoredPaymentData(r)>>
              /\ handlerResult[r][1].data[1].SettleResponse \in Answers(r, "settle")
        /\ handlerResult[r] # <<>> /\ ~HasPaymentData(r) =>
              /\ handlerResult[r][1].panic
              /\ handlerResult[r][1].data = <<>>
              /\ pc[r] = "crashed" /\ resp[r] = NoResponse
        /\ handlerResult[r] # <<>> =>
              handlerResult[r][1].panic = ~HasPaymentData(r)

C30_Witness ==
    \E r \in Requests :
        /\ pc[r] = "crashed" /\ handlerResult[r][1].panic
        /\ request[r].header # <<>> /\ request[r].header[1].value = PayloadV1B64
        /\ calls[r] = <<>>

(***************************************************************************)
(* C28 as stated: in the packages/server/go variant a Verify transport     *)
(* error is surfaced with no further traffic to the facilitator: per       *)
(* request at most one HTTP request goes to /verify, also on the error     *)
(* path, and the failed Verify is the last request sent.                   *)
(***************************************************************************)
C28_Original ==
    \A r \in Requests :
        /\ Cardinality({ i \in 1..Len(calls[r]) : calls[r][i].op = "verify" }) <= 1
        /\ \A i \in 1..Len(calls[r]) :
              /\ calls[r][i].sender = "facilitatorClient"
              /\ calls[r][i].result # <<>> /\ calls[r][i].result[1].err # ""
                    => i = Len(calls[r])

====
